---- MODULE Spec2Model ----
(***************************************************************************)
(* Task distribution and workload-state subsystem of AIDashboard:         *)
(* AgentTaskDatabase (the SQLite store), TaskDistributor (assignment,     *)
(* notifier, scheduler step, simulated execution), AgentTaskSystem.start  *)
(* (the scheduler loop) and the dashboard's task endpoints.               *)
(*                                                                         *)
(* Time is a whole number of seconds.  Task ids are the serial numbers of *)
(* the rows (uuid4 values are only compared for equality).  One action is *)
(* one run of the asyncio event loop between two suspension points: the   *)
(* store calls are synchronous, so a handler without a real await is      *)
(* atomic.                                                                 *)
(***************************************************************************)
EXTENDS Integers, Sequences, FiniteSets, TLC

\* ---------------------------------------------------------------- bounds
MaxTasks == 4          \* task rows ever created
MaxNow == 1            \* the clock runs 0..MaxNow
MaxApiCalls == 2       \* arbitrary status updates the endpoint serves in one behaviour

\* ------------------------------------------------------ program constants
MAX_CONCURRENT_TASKS_PER_AGENT == 3
SecondsPerDay == 86400
NULL == -1             \* SQL NULL / Python None in a numeric or timestamp column
NoText == "NULL"       \* SQL NULL / Python None in a text column

\* Rosters of openclaw.json (agents.list), in file order.
RosterOne == <<"qa-quality">>

RosterTwo == <<"qa-quality", "seniordeveloper-code">>

RosterCoordinator == <<"qa-quality", "team-coordinator">>

Statuses == {"pending", "assigned", "working", "completed", "failed"}
Active == {"assigned", "working"}
Terminal == {"completed", "failed"}

VARIABLES
    agents,     \* table agents: id -> row
    tasks,      \* table agent_tasks: sequence of rows, index = task id
    now,        \* wall clock, seconds
    routines,   \* live simulate_task_completion coroutines
    spawned,    \* per task id: how many routines were ever created for it
    api_calls,  \* how many status updates the endpoint has served
    agents_config,  \* TaskDistributor.agents_config: the roster, ids in file order
    sched       \* AgentTaskSystem.start: "sleeping" in asyncio.sleep, or "due"

vars == <<agents, tasks, now, routines, spawned, api_calls, agents_config, sched>>

\* ------------------------------------------------------------- the store
\* Column defaults of CREATE TABLE agents, as left by INSERT OR REPLACE.
NewAgentRow ==
    [max_concurrent_tasks |-> MAX_CONCURRENT_TASKS_PER_AGENT,
     active_tasks |-> 0, completed_tasks |-> 0, failed_tasks |-> 0,
     total_task_time |-> 0, average_response_time |-> 0,
     last_heartbeat |-> NULL]

\* add_agent: INSERT OR REPLACE deletes the row with this id, if any, and
\* inserts a row holding the six given columns and the defaults of the rest.
add_agent(ag, agent_id) ==
    IF agent_id \in DOMAIN ag
    THEN [ag EXCEPT ![agent_id] = NewAgentRow]
    ELSE [a \in DOMAIN ag \cup {agent_id} |->
            IF a = agent_id THEN NewAgentRow ELSE ag[a]]

RECURSIVE initialize_agents(_, _, _)
initialize_agents(ag, list, i) ==
    IF i > Len(list) THEN ag
    ELSE initialize_agents(add_agent(ag, list[i]), list, i + 1)

\* The db value the operators below transform.
Db(ag, ts) == [agents |-> ag, tasks |-> ts]

\* create_task: INSERT the row (status as given by the caller, the other
\* columns at their defaults), then touch the owner's heartbeat.
NewTaskRow(agent_id, priority, est, t) ==
    [agent_id |-> agent_id, title |-> "title", description |-> "description",
     priority |-> priority, status |-> "pending",
     progress |-> 0, assigned_at |-> t, started_at |-> NULL,
     completed_at |-> NULL, estimated_duration |-> est,
     actual_duration |-> NULL, dependencies |-> "[]", result |-> NoText,
     error_message |-> NoText, created_by |-> "system", last_updated |-> t]

create_task(db, t, agent_id, priority, est) ==
    [agents |-> IF agent_id \in DOMAIN db.agents
                THEN [db.agents EXCEPT ![agent_id].last_heartbeat = t]
                ELSE db.agents,
     tasks |-> Append(db.tasks, NewTaskRow(agent_id, priority, est, t))]

\* timedelta.seconds: the seconds field of the normalised difference.
TimedeltaSeconds(later, earlier) == (later - earlier) % SecondsPerDay

ActiveCount(ts, agent_id) ==
    Cardinality({i \in 1..Len(ts) :
                    ts[i].agent_id = agent_id /\ ts[i].status \in Active})

\* update_task_status.  Returns [db, err]; err is TRUE when the call raises
\* (the transaction is then rolled back).
update_task_status(db, t, task_id, status, progress, result) ==
    IF task_id \notin 1..Len(db.tasks)
    THEN \* fetchone()[0] on no row raises for a terminal status; otherwise
         \* the UPDATE matches no row and the call returns normally
         [db |-> db, err |-> status \in Terminal]
    ELSE
    LET row == db.tasks[task_id]
        duration == TimedeltaSeconds(t, row.assigned_at)
        r1 == [row EXCEPT !.status = status, !.last_updated = t]
        r2 == IF progress # NULL THEN [r1 EXCEPT !.progress = progress] ELSE r1
        r3 == IF result # NoText THEN [r2 EXCEPT !.result = result] ELSE r2
        r4 == IF status = "working" THEN [r3 EXCEPT !.started_at = t] ELSE r3
        r5 == IF status \in Terminal
              THEN [r4 EXCEPT !.completed_at = t, !.actual_duration = duration]
              ELSE r4
        owner == row.agent_id
        ag == IF status \in Terminal /\ owner \in DOMAIN db.agents
              THEN IF status = "completed"
                   THEN [db.agents EXCEPT
                            ![owner].completed_tasks = @ + 1,
                            ![owner].total_task_time = @ + duration]
                   ELSE [db.agents EXCEPT
                            ![owner].failed_tasks = @ + 1,
                            ![owner].total_task_time = @ + duration]
              ELSE db.agents
    IN [db |-> [agents |-> ag, tasks |-> [db.tasks EXCEPT ![task_id] = r5]],
        err |-> FALSE]

\* ------------------------------------------------- rows as the code reads them
\* A fetched column value: <<type, value>>.  Timestamps are TEXT in the store.
IntCell(v) == IF v = NULL THEN <<"null", NULL>> ELSE <<"int", v>>
TimeCell(v) == IF v = NULL THEN <<"null", NULL>> ELSE <<"time", v>>
TextCell(v) == IF v = NoText THEN <<"null", NULL>> ELSE <<"text", v>>

\* The 17 selected columns of one agent_tasks row, in SELECT order
\* (Python's row[k] is SelectedRow(..)[k + 1]).
SelectedRow(task_id, r) ==
    << IntCell(task_id), TextCell(r.agent_id), TextCell(r.title),
       TextCell(r.description), IntCell(r.priority), TextCell(r.status),
       IntCell(r.progress), TimeCell(r.assigned_at), TimeCell(r.started_at),
       TimeCell(r.completed_at), IntCell(r.estimated_duration),
       IntCell(r.actual_duration), TextCell(r.dependencies),
       TextCell(r.result), TextCell(r.error_message), TextCell(r.created_by),
       TimeCell(r.last_updated) >>

\* json.loads(cell) if cell else []: a NULL, 0 or empty value gives the empty
\* list, a JSON text its value, and a nonzero number makes json.loads raise.
Falsy(cell) == cell[1] = "null" \/ (cell[1] = "int" /\ cell[2] = 0)
JsonRaises(cell) == ~Falsy(cell) /\ cell[1] # "text"
Dependencies(cell) == IF Falsy(cell) THEN <<"list", 0>> ELSE cell

\* AgentTask(...) as get_agent_tasks builds it from a row.
AgentTaskOfRow(row) ==
    [id |-> row[1], agent_id |-> row[2], title |-> row[3],
     description |-> row[4], priority |-> row[5], status |-> row[6],
     progress |-> row[7], assigned_at |-> row[8], started_at |-> row[9],
     completed_at |-> row[10], estimated_duration |-> row[11],
     actual_duration |-> row[12],
     dependencies |-> Dependencies(row[13]),
     result |-> row[14], error_message |-> row[15], created_by |-> row[16],
     last_updated |-> row[17]]

\* AgentTask(...) as get_next_task builds it from the row it selected.
NextTaskOfRow(row) ==
    [id |-> row[1], agent_id |-> row[2], title |-> row[3],
     description |-> row[4], priority |-> row[5],
     status |-> <<"text", "assigned">>,
     progress |-> row[6], assigned_at |-> row[7], started_at |-> row[8],
     completed_at |-> row[9], estimated_duration |-> row[10],
     actual_duration |-> row[11],
     dependencies |-> Dependencies(row[12]),
     result |-> row[13], error_message |-> row[14], created_by |-> row[15],
     last_updated |-> row[16]]

NoTask == [id |-> <<"null", NULL>>]

\* ORDER BY priority, assigned_at over the agent's pending rows: the rows no
\* other pending row precedes.  SQL leaves the order among them open.
PendingOf(ts, agent_id) ==
    {i \in 1..Len(ts) : ts[i].agent_id = agent_id /\ ts[i].status = "pending"}

Precedes(a, b) ==
    \/ a.priority < b.priority
    \/ a.priority = b.priority /\ a.assigned_at < b.assigned_at

FirstPending(ts, agent_id) ==
    {i \in PendingOf(ts, agent_id) :
        \A j \in PendingOf(ts, agent_id) : ~Precedes(ts[j], ts[i])}

Least(S) == CHOOSE x \in S : \A y \in S : x <= y

\* get_next_task with the capacity test off by one (> for >=).
get_next_task_full_agent_admitted(db, t, agent_id, pick) ==
    IF agent_id \notin DOMAIN db.agents
    THEN [db |-> db, ret |-> NoTask, err |-> TRUE]
    ELSE
    LET active_count == ActiveCount(db.tasks, agent_id)
        max_concurrent == db.agents[agent_id].max_concurrent_tasks
        first == FirstPending(db.tasks, agent_id)
        task_id == IF pick \in first THEN pick ELSE Least(first)
    IN  IF active_count > max_concurrent
        THEN [db |-> db, ret |-> NoTask, err |-> FALSE]
        ELSE IF first = {}
        THEN [db |-> db, ret |-> NoTask, err |-> FALSE]
        ELSE [db |-> [agents |-> [db.agents EXCEPT
                                    ![agent_id].active_tasks = active_count + 1],
                      tasks |-> [db.tasks EXCEPT
                                    ![task_id].status = "assigned",
                                    ![task_id].last_updated = t]],
              ret |-> IF JsonRaises(SelectedRow(task_id, db.tasks[task_id])[12])
                      THEN NoTask
                      ELSE NextTaskOfRow(SelectedRow(task_id, db.tasks[task_id])),
              err |-> JsonRaises(SelectedRow(task_id, db.tasks[task_id])[12])]

\* get_next_task taking the first pending task of any agent and making the
\* caller its owner.
get_next_task_takes_over(db, t, agent_id, pick) ==
    IF agent_id \notin DOMAIN db.agents
    THEN [db |-> db, ret |-> NoTask, err |-> TRUE]
    ELSE
    LET active_count == ActiveCount(db.tasks, agent_id)
        max_concurrent == db.agents[agent_id].max_concurrent_tasks
        first == {i \in 1..Len(db.tasks) :
                    /\ db.tasks[i].status = "pending"
                    /\ \A j \in 1..Len(db.tasks) :
                          db.tasks[j].status = "pending" =>
                              ~Precedes(db.tasks[j], db.tasks[i])}
        task_id == IF pick \in first THEN pick ELSE Least(first)
    IN  IF active_count >= max_concurrent
        THEN [db |-> db, ret |-> NoTask, err |-> FALSE]
        ELSE IF first = {}
        THEN [db |-> db, ret |-> NoTask, err |-> FALSE]
        ELSE [db |-> [agents |-> [db.agents EXCEPT
                                    ![agent_id].active_tasks = active_count + 1],
                      tasks |-> [db.tasks EXCEPT
                                    ![task_id].status = "assigned",
                                    ![task_id].agent_id = agent_id,
                                    ![task_id].last_updated = t]],
              ret |-> IF JsonRaises(SelectedRow(task_id, db.tasks[task_id])[12])
                      THEN NoTask
                      ELSE NextTaskOfRow(SelectedRow(task_id, db.tasks[task_id])),
              err |-> JsonRaises(SelectedRow(task_id, db.tasks[task_id])[12])]

\* get_next_task.  pick resolves LIMIT 1 among equal sort keys.  Returns
\* [db, ret, err]: ret is the AgentTask or NoTask; err when the call raises
\* (a missing agent row before any write; json.loads after the commit).
get_next_task(db, t, agent_id, pick) ==
    IF agent_id \notin DOMAIN db.agents
    THEN [db |-> db, ret |-> NoTask, err |-> TRUE]
    ELSE
    LET active_count == ActiveCount(db.tasks, agent_id)
        max_concurrent == db.agents[agent_id].max_concurrent_tasks
        first == FirstPending(db.tasks, agent_id)
        task_id == IF pick \in first THEN pick ELSE Least(first)
    IN  IF active_count >= max_concurrent
        THEN [db |-> db, ret |-> NoTask, err |-> FALSE]
        ELSE IF first = {}
        THEN [db |-> db, ret |-> NoTask, err |-> FALSE]
        ELSE [db |-> [agents |-> [db.agents EXCEPT
                                    ![agent_id].active_tasks = active_count + 1],
                      tasks |-> [db.tasks EXCEPT
                                    ![task_id].status = "assigned",
                                    ![task_id].last_updated = t]],
              ret |-> IF JsonRaises(SelectedRow(task_id, db.tasks[task_id])[12])
                      THEN NoTask
                      ELSE NextTaskOfRow(SelectedRow(task_id, db.tasks[task_id])),
              err |-> JsonRaises(SelectedRow(task_id, db.tasks[task_id])[12])]

\* get_agent_workload.  Returns the AgentWorkload fields the callers read;
\* err when the agent row is missing (ValueError).
HeartbeatAge(t, hb) == TimedeltaSeconds(t, hb)

WorkloadStatus(active, max_concurrent, t, hb) ==
    IF active >= max_concurrent THEN "overloaded"
    ELSE IF active > 0 THEN "busy"
    ELSE IF hb # NULL /\ HeartbeatAge(t, hb) > 60 THEN "offline"
    ELSE "available"

get_agent_workload(db, t, agent_id) ==
    IF agent_id \notin DOMAIN db.agents
    THEN [err |-> TRUE]
    ELSE LET row == db.agents[agent_id]
             active == ActiveCount(db.tasks, agent_id)
         IN [err |-> FALSE,
             max_concurrent |-> row.max_concurrent_tasks,
             active_count |-> active,
             completed_count |-> row.completed_tasks,
             failed_count |-> row.failed_tasks,
             total_task_time |-> row.total_task_time,
             average_response_time |-> row.average_response_time,
             status |-> WorkloadStatus(active, row.max_concurrent_tasks, t,
                                       row.last_heartbeat)]

\* ------------------------------------------------------- TaskDistributor
NoAgent == NoText

task_mapping(task_type) ==
    CASE task_type = "system_design" -> <<"cto-leader", "sa-architect", "softarch-lead">>
      [] task_type = "business_analysis" -> <<"ba-strategist", "uiux-researcher", "cto-leader">>
      [] task_type = "development" ->
            <<"leaddeveloper-tech", "seniordeveloper-code", "juniorddeveloper-learning">>
      [] task_type = "testing" -> <<"qa-quality", "seniordeveloper-code">>
      [] task_type = "infrastructure" ->
            <<"sysadmin-infrastructure", "devops-automation", "dba-data">>
      [] task_type = "performance" -> <<"dba-data", "devops-automation", "seniordeveloper-code">>
      [] task_type = "ui_ux" -> <<"uiux-researcher", "ba-strategist">>
      [] task_type = "general" -> <<"team-coordinator">>
      [] OTHER -> <<"team-coordinator">>

\* estimate_task_duration with the entry of "general" as the default.
estimate_task_duration_general_default(task_type) ==
    CASE task_type = "system_design" -> 600
      [] task_type = "business_analysis" -> 300
      [] task_type = "development" -> 900
      [] task_type = "testing" -> 180
      [] task_type = "infrastructure" -> 240
      [] task_type = "performance" -> 360
      [] task_type = "ui_ux" -> 420
      [] task_type = "general" -> 60
      [] OTHER -> 60

estimate_task_duration(task_type) ==
    CASE task_type = "system_design" -> 600
      [] task_type = "business_analysis" -> 300
      [] task_type = "development" -> 900
      [] task_type = "testing" -> 180
      [] task_type = "infrastructure" -> 240
      [] task_type = "performance" -> 360
      [] task_type = "ui_ux" -> 420
      [] task_type = "general" -> 60
      [] OTHER -> 300

\* The loop of find_best_agent with <= for < in the workload comparison (the
\* last of the least loaded candidates wins).
RECURSIVE best_agent_from_last_tie_wins(_, _, _, _, _, _)
best_agent_from_last_tie_wins(db, t, suitable, i, best, min_workload) ==
    IF i > Len(suitable) THEN best
    ELSE LET w == get_agent_workload(db, t, suitable[i])
         IN IF ~w.err /\ w.active_count < w.max_concurrent
                /\ (min_workload = NULL \/ w.active_count <= min_workload)
            THEN best_agent_from_last_tie_wins(db, t, suitable, i + 1,
                                               suitable[i], w.active_count)
            ELSE best_agent_from_last_tie_wins(db, t, suitable, i + 1,
                                               best, min_workload)

\* The loop of find_best_agent over suitable_agents[i..]; best/min_workload are
\* the loop variables (min_workload = NULL stands for float('inf')).
RECURSIVE best_agent_from(_, _, _, _, _, _)
best_agent_from(db, t, suitable, i, best, min_workload) ==
    IF i > Len(suitable) THEN best
    ELSE LET w == get_agent_workload(db, t, suitable[i])
         IN IF ~w.err /\ w.active_count < w.max_concurrent
                /\ (min_workload = NULL \/ w.active_count < min_workload)
            THEN best_agent_from(db, t, suitable, i + 1, suitable[i], w.active_count)
            ELSE best_agent_from(db, t, suitable, i + 1, best, min_workload)

find_best_agent(db, t, task_type) ==
    best_agent_from(db, t, task_mapping(task_type), 1, NoAgent, NULL)

\* notify_agent
notify_agent(db, t, agent_id, task_id) ==
    update_task_status(db, t, task_id, "assigned", NULL, NoText)

\* distribute_task with the row inserted before the agent is looked at.
distribute_task_creates_before_check(db, t, task_type, priority, assigned_to) ==
    LET agent_id == IF assigned_to # NoAgent THEN assigned_to
                    ELSE find_best_agent(db, t, task_type)
        created == create_task(db, t, agent_id, priority,
                               estimate_task_duration(task_type))
        task_id == Len(created.tasks)
        notified == notify_agent(created, t, agent_id, task_id)
    IN IF agent_id = NoAgent
       THEN [db |-> created, task_id |-> NULL, err |-> TRUE]
       ELSE [db |-> notified.db, task_id |-> task_id, err |-> notified.err]

\* distribute_task.  Returns [db, task_id, err]; err when it raises ValueError.
distribute_task(db, t, task_type, priority, assigned_to) ==
    LET agent_id == IF assigned_to # NoAgent THEN assigned_to
                    ELSE find_best_agent(db, t, task_type)
        created == create_task(db, t, agent_id, priority,
                               estimate_task_duration(task_type))
        task_id == Len(created.tasks)
        notified == notify_agent(created, t, agent_id, task_id)
    IN IF agent_id = NoAgent
       THEN [db |-> db, task_id |-> NULL, err |-> TRUE]
       ELSE [db |-> notified.db, task_id |-> task_id, err |-> notified.err]

\* What the event loop holds besides the store: st = [db, routines, spawned].
Routine(task, n) ==
    [id |-> task.id[2], agent_id |-> task.agent_id[2],
     est |-> task.estimated_duration, pc |-> "start", progress |-> 10, n |-> n]

\* process_agent_heartbeat: every exception is caught and logged.
process_agent_heartbeat(st, t, agent_id, pick) ==
    LET beat == IF agent_id \in DOMAIN st.db.agents
                THEN [st.db EXCEPT !.agents[agent_id].last_heartbeat = t]
                ELSE st.db
        next == get_next_task(beat, t, agent_id, pick)
        started == update_task_status(next.db, t, next.ret.id[2], "working", 10, NoText)
    IN IF next.err \/ next.ret.id[1] = "null"
       THEN [st EXCEPT !.db = next.db]
       ELSE IF started.err
       THEN [st EXCEPT !.db = started.db]
       ELSE [db |-> started.db,
             routines |-> st.routines \cup
                 {Routine(next.ret, st.spawned[next.ret.id[2]] + 1)},
             spawned |-> [st.spawned EXCEPT ![next.ret.id[2]] = @ + 1]]

\* One round of AgentTaskSystem.start over agent_ids[i..].
RECURSIVE heartbeat_round(_, _, _, _, _)
heartbeat_round(st, t, agent_ids, i, picks) ==
    IF i > Len(agent_ids) THEN st
    ELSE heartbeat_round(
            process_agent_heartbeat(st, t, agent_ids[i], picks[agent_ids[i]]),
            t, agent_ids, i + 1, picks)

\* estimated_duration / 10 raises TypeError unless the value is a number.
IsNumber(cell) == cell[1] = "int"

\* simulate_task_completion, from one suspension point to the next.
simulate_failed(st, t, r) ==
    [st EXCEPT !.db = update_task_status(st.db, t, r.id, "failed", NULL, "Task failed").db,
               !.routines = @ \ {r}]

simulate_task_completion(st, t, r, pick) ==
    LET progressed == update_task_status(st.db, t, r.id, "working", r.progress, NoText)
        completed == update_task_status(progressed.db, t, r.id, "completed", 100,
                                        "completed successfully")
    IN IF r.pc = "start"
       THEN IF IsNumber(r.est)
            THEN [st EXCEPT !.routines = (@ \ {r}) \cup {[r EXCEPT !.pc = "loop"]}]
            ELSE simulate_failed(st, t, r)
       ELSE IF progressed.err
       THEN simulate_failed(st, t, r)
       ELSE IF r.progress < 100
       THEN [st EXCEPT !.db = progressed.db,
                       !.routines = (@ \ {r}) \cup {[r EXCEPT !.progress = @ + 10]}]
       ELSE IF completed.err
       THEN simulate_failed([st EXCEPT !.db = progressed.db], t, r)
       ELSE process_agent_heartbeat(
                [st EXCEPT !.db = completed.db, !.routines = @ \ {r}],
                t, r.agent_id, pick)

\* ----------------------------------------------- the store is unavailable
\* sqlite3.connect (or the first statement) raises OperationalError for the
\* whole of one atomic run: nothing is written by that run.

\* One round of AgentTaskSystem.start over agent_ids[i..] with the store
\* unavailable during the steps of the agents in down, the round stopping at
\* the first step that fails.
RECURSIVE heartbeat_round_ended_by_failure(_, _, _, _, _, _)
heartbeat_round_ended_by_failure(st, t, agent_ids, i, picks, down) ==
    IF i > Len(agent_ids) THEN st
    ELSE IF agent_ids[i] \in down THEN st
    ELSE heartbeat_round_ended_by_failure(
            process_agent_heartbeat(st, t, agent_ids[i], picks[agent_ids[i]]),
            t, agent_ids, i + 1, picks, down)

\* One round of AgentTaskSystem.start over agent_ids[i..] with the store
\* unavailable during the steps of the agents in down: the except clause of
\* process_agent_heartbeat logs the error and the for loop goes on.
RECURSIVE heartbeat_round_store(_, _, _, _, _, _)
heartbeat_round_store(st, t, agent_ids, i, picks, down) ==
    IF i > Len(agent_ids) THEN st
    ELSE heartbeat_round_store(
            IF agent_ids[i] \in down
            THEN st
            ELSE process_agent_heartbeat(st, t, agent_ids[i], picks[agent_ids[i]]),
            t, agent_ids, i + 1, picks, down)

\* process_agent_heartbeat with the store becoming unavailable after
\* get_next_task has committed: update_task_status(next_task.id, 'working',
\* 10.0) raises, the except clause logs it and no routine is created.
process_agent_heartbeat_start_fails(st, t, agent_id, pick) ==
    LET beat == IF agent_id \in DOMAIN st.db.agents
                THEN [st.db EXCEPT !.agents[agent_id].last_heartbeat = t]
                ELSE st.db
        next == get_next_task(beat, t, agent_id, pick)
    IN [st EXCEPT !.db = next.db]

\* One round of AgentTaskSystem.start over agent_ids[i..] in which every
\* start fails that way.
RECURSIVE heartbeat_round_start_fails(_, _, _, _, _)
heartbeat_round_start_fails(st, t, agent_ids, i, picks) ==
    IF i > Len(agent_ids) THEN st
    ELSE heartbeat_round_start_fails(
            process_agent_heartbeat_start_fails(st, t, agent_ids[i],
                                                picks[agent_ids[i]]),
            t, agent_ids, i + 1, picks)

\* simulate_task_completion, from one suspension point to the next, with the
\* store unavailable: the update_task_status of the except clause raises as
\* well and the coroutine ends with that exception.
simulate_store_down(st, t, r) ==
    IF r.pc = "start" /\ IsNumber(r.est)
    THEN [st EXCEPT !.routines = (@ \ {r}) \cup {[r EXCEPT !.pc = "loop"]}]
    ELSE [st EXCEPT !.routines = @ \ {r}]

\* ----------------------------------------------------------- the live feed
\* The names the module enhanced_dashboard binds (its imports and globals)
\* among those enhanced_websocket_handler reads.
DashboardNames ==
    {"asyncio", "json", "logging", "sqlite3", "datetime", "websocket",
     "database", "task_database", "original_app", "Config"}

NameError(name) == name \notin DashboardNames

NonTerminal == Statuses \ Terminal
RecentLimit == 10

\* SELECT ... WHERE status IN ('pending', 'assigned', 'working')
\* ORDER BY last_updated DESC LIMIT 10, as the set of the selected ids.
recent_tasks(ts) ==
    {i \in 1..Len(ts) :
        /\ ts[i].status \in NonTerminal
        /\ Cardinality({j \in 1..Len(ts) :
                          /\ ts[j].status \in NonTerminal
                          /\ ts[j].last_updated > ts[i].last_updated}) < RecentLimit}

\* One pass of the while loop of enhanced_websocket_handler, up to ws.send.
\* The bare except around asdict(workload) skips the agent; an exception in
\* the rest of the pass ends the handler.  Returns what was sent, if anything.
websocket_pass(db, t) ==
    LET agent_list == DOMAIN db.agents
        listed == IF NameError("asdict") THEN {}
                  ELSE {a \in agent_list : ~get_agent_workload(db, t, a).err}
        agent_workloads == [a \in listed |-> get_agent_workload(db, t, a)]
    IN IF NameError("asdict")
       THEN [sent |-> FALSE, agents |-> {}, agent_workloads |-> <<>>,
             recent_tasks |-> {}]
       ELSE [sent |-> TRUE, agents |-> agent_list,
             agent_workloads |-> agent_workloads,
             recent_tasks |-> recent_tasks(db.tasks)]

\* ---------------------------------------------------------------- actions
St == [db |-> Db(agents, tasks), routines |-> routines, spawned |-> spawned]

Install(st) ==
    /\ agents' = st.db.agents
    /\ tasks' = st.db.tasks
    /\ routines' = st.routines
    /\ spawned' = (IF Len(st.db.tasks) > Len(st.spawned)
                   THEN Append(st.spawned, 0) ELSE st.spawned)

TaskTypes == {"testing"}
Priorities == {1, 2}
ProgressInputs == {NULL}
TaskIds == 1..Len(tasks)

\* The rows LIMIT 1 may return for the agent (0 when there is none).
PickSet(agent_id) ==
    IF FirstPending(tasks, agent_id) = {} THEN {0} ELSE FirstPending(tasks, agent_id)
PickMaps ==
    {f \in [DOMAIN agents -> 0..Len(tasks)] : \A a \in DOMAIN agents : f[a] \in PickSet(a)}

InitWith(roster) ==
    /\ agents_config = roster
    /\ agents = initialize_agents(<<>>, roster, 1)
    /\ tasks = <<>>
    /\ now = 0
    /\ routines = {}
    /\ spawned = <<>>
    /\ api_calls = 0
    /\ sched = "due"

Init == InitWith(RosterOne)

\* POST /api/create_task
DistributeTask(task_type, priority, assigned_to) ==
    /\ Len(tasks) < MaxTasks
    /\ Install([St EXCEPT !.db = distribute_task(St.db, now, task_type, priority,
                                                 assigned_to).db])
    /\ UNCHANGED <<now, api_calls, agents_config, sched>>

\* POST /api/task/<task_id>/status
ApiTaskStatus(task_id, status, progress, result) ==
    /\ api_calls < MaxApiCalls
    /\ api_calls' = api_calls + 1
    /\ Install([St EXCEPT !.db = update_task_status(St.db, now, task_id, status,
                                                    progress, result).db])
    /\ UNCHANGED <<now, agents_config, sched>>

\* TaskDistributor.__init__ run again on the same store
InitializeAgents ==
    /\ Install([St EXCEPT !.db.agents = initialize_agents(agents, agents_config, 1)])
    /\ UNCHANGED <<now, api_calls, agents_config, sched>>

\* One round of the scheduler loop, up to its asyncio.sleep
SchedulerTick(picks) ==
    /\ sched = "due"
    /\ sched' = "sleeping"
    /\ Install(heartbeat_round(St, now, agents_config, 1, picks))
    /\ UNCHANGED <<now, api_calls, agents_config>>

\* asyncio.sleep(Config.REFRESH_INTERVAL) returns
SchedulerWake ==
    /\ sched = "sleeping"
    /\ sched' = "due"
    /\ UNCHANGED <<agents, tasks, now, routines, spawned, api_calls, agents_config>>

\* One simulated-execution routine runs to its next suspension point
SimulateStep(r, pick) ==
    /\ Install(simulate_task_completion(St, now, r, pick))
    /\ UNCHANGED <<now, api_calls, agents_config, sched>>

\* One round of the scheduler loop while the store is unavailable for some
\* of the agents' steps
SchedulerTickStoreDown(picks, down) ==
    /\ sched = "due"
    /\ sched' = "sleeping"
    /\ Install(heartbeat_round_store(St, now, agents_config, 1, picks, down))
    /\ UNCHANGED <<now, api_calls, agents_config>>

\* One simulated-execution routine runs to its next suspension point while
\* the store is unavailable
SimulateStepStoreDown(r) ==
    /\ Install(simulate_store_down(St, now, r))
    /\ UNCHANGED <<now, api_calls, agents_config, sched>>

\* POST /api/task/<task_id>/status by an agent reporting that it has started
\* a task assigned to it
ApiStartAssigned(task_id) ==
    /\ tasks[task_id].status = "assigned"
    /\ api_calls' = api_calls + 1
    /\ Install([St EXCEPT !.db = update_task_status(St.db, now, task_id, "working",
                                                    NULL, NoText).db])
    /\ UNCHANGED <<now, agents_config, sched>>

\* One round of the scheduler loop during which the store becomes unavailable
\* between get_next_task and the update that starts the task
SchedulerTickStartFails(picks) ==
    /\ sched = "due"
    /\ sched' = "sleeping"
    /\ Install(heartbeat_round_start_fails(St, now, agents_config, 1, picks))
    /\ UNCHANGED <<now, api_calls, agents_config>>

AdvanceClock ==
    /\ now < MaxNow
    /\ now' = now + 1
    /\ UNCHANGED <<agents, tasks, routines, spawned, api_calls, agents_config, sched>>

Next ==
    \/ \E ty \in TaskTypes, p \in Priorities, a \in DOMAIN agents \cup {NoAgent} :
            DistributeTask(ty, p, a)
    \/ \E i \in TaskIds, s \in Statuses, pr \in ProgressInputs :
            ApiTaskStatus(i, s, pr, NoText)
    \/ InitializeAgents
    \/ \E picks \in PickMaps : SchedulerTick(picks)
    \/ SchedulerWake
    \/ \E r \in routines : \E pick \in PickSet(r.agent_id) : SimulateStep(r, pick)
    \/ AdvanceClock

Spec == Init /\ [][Next]_vars

\* The same system with the clock held and the registry run once: every
\* combination of task statuses is reached, all timestamps being equal.
NextStatus ==
    \/ \E ty \in TaskTypes, p \in Priorities, a \in DOMAIN agents \cup {NoAgent} :
            DistributeTask(ty, p, a)
    \/ \E i \in TaskIds, s \in Statuses, pr \in ProgressInputs :
            ApiTaskStatus(i, s, pr, NoText)
    \/ \E picks \in PickMaps : SchedulerTick(picks)
    \/ SchedulerWake
    \/ \E r \in routines : \E pick \in PickSet(r.agent_id) : SimulateStep(r, pick)

StatusSpec == Init /\ [][NextStatus]_vars

\* Two agents sharing the task type "testing", the clock held, and a store
\* that can be unavailable for the length of a scheduler step or routine step.
\* Tasks are created at the default priority and the endpoint's callers put
\* tasks back to pending.
InitTeam == InitWith(RosterTwo)

DefaultPriority == 2
TeamStatuses == {"pending", "completed"}

NextTeam ==
    \/ \E ty \in TaskTypes, a \in DOMAIN agents \cup {NoAgent} :
            DistributeTask(ty, DefaultPriority, a)
    \/ \E i \in TaskIds, pr \in ProgressInputs :
            ApiTaskStatus(i, "pending", pr, NoText)
    \/ \E picks \in PickMaps : \E down \in SUBSET DOMAIN agents :
            SchedulerTickStoreDown(picks, down)
    \/ SchedulerWake
    \/ \E r \in routines : \E pick \in PickSet(r.agent_id) : SimulateStep(r, pick)
    \/ \E r \in routines : SimulateStepStoreDown(r)

TeamSpec == InitTeam /\ [][NextTeam]_vars

\* The store states of the two-agent team: tasks are created and the
\* endpoint's callers complete them or put them back to pending, nothing is
\* scheduled.
NextStore ==
    \/ \E ty \in TaskTypes, a \in DOMAIN agents \cup {NoAgent} :
            DistributeTask(ty, DefaultPriority, a)
    \/ \E i \in TaskIds, s \in TeamStatuses, pr \in ProgressInputs :
            ApiTaskStatus(i, s, pr, NoText)

StoreSpec == InitTeam /\ [][NextStore]_vars

\* Tasks are created and the agents report the start of the tasks assigned
\* to them; the scheduler loop runs.
NextReport ==
    \/ \E ty \in TaskTypes, p \in Priorities, a \in DOMAIN agents \cup {NoAgent} :
            DistributeTask(ty, p, a)
    \/ \E i \in TaskIds : ApiStartAssigned(i)
    \/ \E picks \in PickMaps : SchedulerTick(picks)
    \/ SchedulerWake

ReportSpec == Init /\ [][NextReport]_vars

\* A roster with the coordinator; tasks of every type, the unmapped ones
\* included, are created with no explicit agent.
RequestTypes ==
    {"system_design", "business_analysis", "development", "testing",
     "infrastructure", "performance", "ui_ux", "general", "other", "foo"}

InitTypes == InitWith(RosterCoordinator)

NextTypes ==
    \/ \E ty \in RequestTypes, p \in Priorities : DistributeTask(ty, p, NoAgent)
    \/ \E picks \in PickMaps : SchedulerTick(picks)
    \/ SchedulerWake

TypesSpec == InitTypes /\ [][NextTypes]_vars

\* The event loop runs every ready callback: the scheduler round comes back
\* every REFRESH_INTERVAL seconds and a created routine is run.
FairSpec ==
    /\ Spec
    /\ WF_vars(\E picks \in PickMaps : SchedulerTick(picks))
    /\ WF_vars(SchedulerWake)
    /\ WF_vars(\E r \in routines : \E pick \in PickSet(r.agent_id) : SimulateStep(r, pick))

\* One agent, the clock held; the endpoint's callers put tasks back to
\* pending, and a scheduler round can lose the store after get_next_task.
\* Rounds with the store available keep coming.
NextRetry ==
    \/ \E ty \in TaskTypes, a \in DOMAIN agents \cup {NoAgent} :
            DistributeTask(ty, DefaultPriority, a)
    \/ \E i \in TaskIds, pr \in ProgressInputs :
            ApiTaskStatus(i, "pending", pr, NoText)
    \/ \E picks \in PickMaps : SchedulerTick(picks)
    \/ \E picks \in PickMaps : SchedulerTickStartFails(picks)
    \/ SchedulerWake
    \/ \E r \in routines : \E pick \in PickSet(r.agent_id) : SimulateStep(r, pick)

RetrySpec ==
    /\ Init /\ [][NextRetry]_vars
    /\ WF_vars(\E picks \in PickMaps : SchedulerTick(picks))
    /\ WF_vars(SchedulerWake)
    /\ WF_vars(\E r \in routines : \E pick \in PickSet(r.agent_id) : SimulateStep(r, pick))

\* ------------------------------------------------------------------ claims
Counters(row) ==
    <<row.completed_tasks, row.failed_tasks, row.total_task_time>>

StatusOf(i) == IF i <= Len(tasks) THEN tasks[i].status ELSE "none"

\* The status changes of the task lifecycle.
Lifecycle ==
    {<<"pending", "assigned">>, <<"assigned", "working">>,
     <<"working", "completed">>, <<"working", "failed">>}

\* C1: each agent's stored active_tasks and the active_count reported by
\* get_agent_workload both equal the number of its tasks in assigned or working.
C1_ActiveTasksEqualsLiveCount ==
    \A a \in DOMAIN agents :
        /\ agents[a].active_tasks = ActiveCount(tasks, a)
        /\ get_agent_workload(Db(agents, tasks), now, a).active_count
              = ActiveCount(tasks, a)

\* C2: with tasks created through distribute_task and advanced by the scheduler
\* and the routines only, no agent has more than max_concurrent tasks in
\* assigned or working.
C2_ActiveWithinCapacity ==
    api_calls = 0 =>
        \A a \in DOMAIN agents :
            ActiveCount(tasks, a) <= agents[a].max_concurrent_tasks

\* C3: when an agent's tasks in assigned or working number max_concurrent or
\* more, get_next_task returns none and changes no task and no agent row.
C3_NoTaskAtCapacity ==
    \A a \in DOMAIN agents :
        ActiveCount(tasks, a) >= agents[a].max_concurrent_tasks =>
            \A pick \in 0..Len(tasks) :
                LET got == get_next_task(Db(agents, tasks), now, a, pick)
                IN /\ got.ret.id[1] = "null"
                   /\ ~got.err
                   /\ got.db = Db(agents, tasks)

C3_Witness ==
    \E a \in DOMAIN agents :
        /\ ActiveCount(tasks, a) >= agents[a].max_concurrent_tasks
        /\ PendingOf(tasks, a) # {}
        /\ Cardinality({i \in TaskIds : tasks[i].status = "working"}) > 0

\* C4: below capacity, get_next_task returns the agent's pending task with the
\* smallest priority number, the earliest assigned_at among equals, marks
\* exactly that task assigned and changes no other task's status; with no
\* pending task it returns none.
C4_ReturnsFirstPending ==
    \A a \in DOMAIN agents :
        ActiveCount(tasks, a) < agents[a].max_concurrent_tasks =>
            \A pick \in PickSet(a) :
                LET got == get_next_task(Db(agents, tasks), now, a, pick)
                    id == got.ret.id[2]
                IN IF PendingOf(tasks, a) = {}
                   THEN got.ret.id[1] = "null" /\ ~got.err /\ got.db.tasks = tasks
                   ELSE /\ ~got.err
                        /\ got.ret.id[1] = "int"
                        /\ id \in PendingOf(tasks, a)
                        /\ \A j \in PendingOf(tasks, a) : ~Precedes(tasks[j], tasks[id])
                        /\ got.db.tasks[id].status = "assigned"
                        /\ \A j \in TaskIds \ {id} :
                              got.db.tasks[j].status = tasks[j].status

\* C5: a terminal update_task_status on a task that is already terminal leaves
\* the owner's completed_tasks, failed_tasks and total_task_time as they were.
\* (A status update by the endpoint after which no task is newly terminal was
\* a non-terminal update or a repeated terminal one.)
C5_TerminalCountedOnce ==
    [][(/\ api_calls' = api_calls + 1
        /\ \A i \in TaskIds :
              tasks'[i].status \in Terminal => tasks[i].status \in Terminal)
       => \A a \in DOMAIN agents : Counters(agents'[a]) = Counters(agents[a])]_vars

\* C6: once a task is completed or failed, no step changes its status, its
\* completed_at or its actual_duration.
C6_TerminalIsFinal ==
    [][\A i \in TaskIds :
          tasks[i].status \in Terminal =>
              /\ tasks'[i].status = tasks[i].status
              /\ tasks'[i].completed_at = tasks[i].completed_at
              /\ tasks'[i].actual_duration = tasks[i].actual_duration]_vars

\* C7: every change of a task's status follows pending -> assigned -> working
\* -> completed | failed (the scheduler step takes pending to working through
\* assigned as it creates the task's routine), and only get_next_task assigns
\* a pending task that already exists.
C7_LifecycleOrder ==
    [][\A i \in TaskIds :
          tasks'[i].status # tasks[i].status =>
              \/ /\ <<tasks[i].status, tasks'[i].status>> \in Lifecycle
                 /\ tasks[i].status = "pending" => api_calls' = api_calls
              \/ /\ tasks[i].status = "pending"
                 /\ tasks'[i].status = "working"
                 /\ spawned'[i] = spawned[i] + 1]_vars

\* C9: a routine that ends leaves its task completed, with progress 100 and
\* the result text; it does not leave it failed.
C9_RoutineCompletesTask ==
    [][\A r \in routines :
          (\A q \in routines' : q.id # r.id \/ q.n # r.n) =>
              /\ tasks'[r.id].status = "completed"
              /\ tasks'[r.id].progress = 100
              /\ tasks'[r.id].result = "completed successfully"]_vars

\* C10: re-running the registry on an unchanged roster leaves every stored
\* agent's counters, average_response_time and last_heartbeat unchanged.
C10_RegistryKeepsCounters ==
    [][InitializeAgents =>
          \A a \in DOMAIN agents :
              /\ agents'[a].active_tasks = agents[a].active_tasks
              /\ Counters(agents'[a]) = Counters(agents[a])
              /\ agents'[a].average_response_time = agents[a].average_response_time
              /\ agents'[a].last_heartbeat = agents[a].last_heartbeat]_vars

\* C8: under a fair scheduler loop, and as long as no endpoint caller rewrites
\* a status, every created task is eventually working and after that
\* eventually completed or failed.
C8_EveryTaskRuns ==
    \A i \in 1..MaxTasks :
        [](Len(tasks) >= i /\ api_calls = 0 =>
            <>(\/ api_calls > 0
               \/ /\ StatusOf(i) = "working"
                  /\ <>(api_calls > 0 \/ StatusOf(i) \in Terminal)))
\* C11: distribute_task with an explicit assigned_to and a priority p leaves a
\* new task with agent_id = assigned_to, priority = p and status pending,
\* whatever the agent's load.
C11_ExplicitTaskIsPending ==
    \A a \in DOMAIN agents : \A p \in Priorities :
        LET d == distribute_task(Db(agents, tasks), now, "testing", p, a)
        IN /\ ~d.err
           /\ Len(d.db.tasks) = Len(tasks) + 1
           /\ d.db.tasks[d.task_id].agent_id = a
           /\ d.db.tasks[d.task_id].priority = p
           /\ d.db.tasks[d.task_id].status = "pending"

\* Candidate lists of up to three different ids over the two agents and an
\* unknown id.
CandidateIds == {"qa-quality", "seniordeveloper-code", "team-coordinator"}
CandidateLists ==
    {l \in UNION {[1..n -> CandidateIds] : n \in 0..3} :
        \A j, k \in 1..Len(l) : l[j] = l[k] => j = k}

\* The positions of a candidate list holding a known agent below its capacity.
EligibleAt(cands) ==
    {k \in 1..Len(cands) :
        /\ cands[k] \in DOMAIN agents
        /\ ActiveCount(tasks, cands[k]) < agents[cands[k]].max_concurrent_tasks}

\* C12: find_best_agent skips the candidates that are unknown or at capacity
\* and returns, among the others, the one with the fewest active tasks, the
\* earliest in the list among equals; with no such candidate it returns none.
C12_FewestActiveFirstInList ==
    /\ \A cands \in CandidateLists :
          LET got == best_agent_from(Db(agents, tasks), now, cands, 1, NoAgent, NULL)
          IN IF EligibleAt(cands) = {}
             THEN got = NoAgent
             ELSE \E k \in EligibleAt(cands) :
                    /\ got = cands[k]
                    /\ \A j \in EligibleAt(cands) :
                          \/ ActiveCount(tasks, cands[k]) < ActiveCount(tasks, cands[j])
                          \/ /\ ActiveCount(tasks, cands[k]) = ActiveCount(tasks, cands[j])
                             /\ k <= j
    /\ find_best_agent(Db(agents, tasks), now, "testing")
          = best_agent_from(Db(agents, tasks), now,
                            <<"qa-quality", "seniordeveloper-code">>, 1, NoAgent, NULL)

\* The first candidate holds 2 of 3, the second none: the second is returned.
C12_Witness ==
    /\ ActiveCount(tasks, "qa-quality") = 2
    /\ ActiveCount(tasks, "seniordeveloper-code") = 0
    /\ "seniordeveloper-code" \in DOMAIN agents
    /\ find_best_agent(Db(agents, tasks), now, "testing") = "seniordeveloper-code"

\* The task types of task_mapping and one it does not hold.
AllTaskTypes ==
    {"system_design", "business_analysis", "development", "testing",
     "infrastructure", "performance", "ui_ux", "general", "other"}

\* C13: with no explicit agent and every candidate of the task type unknown or
\* at capacity, distribute_task raises and leaves the store as it was: no task
\* row is created and no agent row is modified.
C13_NoSuitableAgentChangesNothing ==
    \A ty \in AllTaskTypes : \A p \in Priorities :
        EligibleAt(task_mapping(ty)) = {} =>
            LET d == distribute_task(Db(agents, tasks), now, ty, p, NoAgent)
            IN /\ d.err
               /\ d.db.tasks = tasks
               /\ d.db.agents = agents

\* The only known candidate for "testing" is at capacity and the call fails.
C13_Witness ==
    /\ ActiveCount(tasks, "qa-quality") >= agents["qa-quality"].max_concurrent_tasks
    /\ EligibleAt(task_mapping("testing")) = {}
    /\ distribute_task(Db(agents, tasks), now, "testing", 1, NoAgent).err

\* C14: a get_next_task or a terminal update_task_status that fails leaves the
\* task rows and the agent rows as they were.
C14_FailedCallChangesNothing ==
    /\ \A a \in DOMAIN agents : \A pick \in PickSet(a) :
          LET got == get_next_task(Db(agents, tasks), now, a, pick)
          IN got.err => got.db.tasks = tasks /\ got.db.agents = agents
    /\ \A i \in 1..(Len(tasks) + 1) : \A s \in Terminal :
          LET upd == update_task_status(Db(agents, tasks), now, i, s, NULL, NoText)
          IN upd.err => upd.db.tasks = tasks /\ upd.db.agents = agents

\* Elapsed times, in seconds, up to more than a day.
Elapsed == {0, 30, 120, SecondsPerDay - 1, SecondsPerDay, SecondsPerDay + 120}

\* C15: a terminal update made at time T on a task assigned at A <= T records
\* actual_duration = T - A, for every elapsed time, a day or more included,
\* and adds exactly T - A to the owner's total_task_time.
C15_DurationIsElapsed ==
    \A i \in TaskIds : \A e \in Elapsed : \A s \in Terminal :
        LET T == now + e
            owner == tasks[i].agent_id
            upd == update_task_status(Db(agents, tasks), T, i, s, NULL, NoText)
        IN /\ ~upd.err
           /\ upd.db.tasks[i].actual_duration = T - tasks[i].assigned_at
           /\ owner \in DOMAIN agents =>
                 upd.db.agents[owner].total_task_time
                    = agents[owner].total_task_time + (T - tasks[i].assigned_at)

\* The status of an agent with a live active count, m capacity and a
\* heartbeat h seconds old.
DerivedStatus(a, m, h) ==
    IF a >= m THEN "overloaded"
    ELSE IF a > 0 THEN "busy"
    ELSE IF h > 60 THEN "offline"
    ELSE "available"

\* C16: get_agent_workload reports overloaded if active >= max_concurrent, else
\* busy if active > 0, else offline if the heartbeat is more than 60 seconds
\* old, however old, else available.
C16_StatusIsDerived ==
    \A a \in DOMAIN agents : \A e \in Elapsed :
        agents[a].last_heartbeat # NULL =>
            LET T == now + e
                w == get_agent_workload(Db(agents, tasks), T, a)
            IN /\ ~w.err
               /\ w.status = DerivedStatus(ActiveCount(tasks, a),
                                           agents[a].max_concurrent_tasks,
                                           T - agents[a].last_heartbeat)

\* C17: get_agent_workload and get_next_task with an unknown agent id, and
\* update_task_status with an unknown task id and any status, raise and
\* leave the store as it was.
C17_UnknownIdIsAnError ==
    LET ghost == "no-such-agent"
        ghost_task == Len(tasks) + 1
        db == Db(agents, tasks)
    IN /\ get_agent_workload(db, now, ghost).err
       /\ get_next_task(db, now, ghost, 0).err
       /\ get_next_task(db, now, ghost, 0).db = db
       /\ \A s \in Statuses :
             /\ update_task_status(db, now, ghost_task, s, NULL, NoText).err
             /\ update_task_status(db, now, ghost_task, s, NULL, NoText).db = db

\* C18: when the scheduling steps of some agents fail in a round, the round
\* still runs the step of every other agent: each of them has its heartbeat
\* written, and its first pending task taken when it is below capacity.
C18_RoundSurvivesFailedStep ==
    sched = "due" =>
    \A down \in SUBSET DOMAIN agents : \A picks \in PickMaps :
        LET after == heartbeat_round_store(St, now, agents_config, 1, picks, down)
        IN \A k \in 1..Len(agents_config) :
              LET a == agents_config[k]
              IN a \notin down =>
                    /\ after.db.agents[a].last_heartbeat = now
                    /\ (/\ PendingOf(tasks, a) # {}
                        /\ ActiveCount(tasks, a) < agents[a].max_concurrent_tasks)
                       => after.db.tasks[picks[a]].status \in Active

\* A round has run in which the first agent's step failed and the second
\* agent's step started a task.
C18_Witness ==
    /\ sched = "sleeping"
    /\ agents["qa-quality"].last_heartbeat = NULL
    /\ \E i \in TaskIds :
          /\ tasks[i].agent_id = "seniordeveloper-code"
          /\ tasks[i].status = "working"
          /\ spawned[i] = 1

\* C19: a routine that ends on an error leaves its task failed, with the error
\* text recorded and the owner's failed_tasks incremented; the task is not
\* left working with no routine.
C19_RoutineErrorFailsTask ==
    [][\A r \in routines :
          (/\ \A q \in routines' : q.id # r.id \/ q.n # r.n
           /\ tasks'[r.id].status # "completed") =>
              /\ tasks'[r.id].status = "failed"
              /\ tasks'[r.id].result # NoText
              /\ agents'[r.agent_id].failed_tasks
                    = agents[r.agent_id].failed_tasks + 1]_vars

\* C20: each task has at most one simulated-execution routine in its whole
\* life, so no two routines update the same task.
C20_OneRoutinePerTask ==
    /\ \A i \in 1..Len(spawned) : spawned[i] <= 1
    /\ \A q, r \in routines : q.id = r.id => q = r

WorkingCount(a) ==
    Cardinality({i \in TaskIds : tasks[i].agent_id = a /\ tasks[i].status = "working"})

RoutineCount(a) ==
    Cardinality({r \in routines : r.agent_id = a})

\* C21: an agent never has more live routines, nor more tasks in working, than
\* its max_concurrent.
C21_WorkingWithinCapacity ==
    \A a \in DOMAIN agents :
        /\ RoutineCount(a) <= agents[a].max_concurrent_tasks
        /\ WorkingCount(a) <= agents[a].max_concurrent_tasks

\* C22: at every refresh interval the live feed sends a snapshot holding the
\* full agent list, a workload entry for every agent of the list and the 10
\* most recently updated tasks among the pending, assigned and working ones.
C22_SnapshotEveryInterval ==
    LET snap == websocket_pass(Db(agents, tasks), now)
    IN /\ snap.sent
       /\ snap.agents = DOMAIN agents
       /\ DOMAIN snap.agent_workloads = snap.agents
       /\ snap.recent_tasks \subseteq {i \in TaskIds : tasks[i].status \in NonTerminal}
       /\ Cardinality(snap.recent_tasks) <= RecentLimit
       /\ \A i \in TaskIds :
             tasks[i].status \in NonTerminal /\ i \notin snap.recent_tasks =>
                 Cardinality(snap.recent_tasks) = RecentLimit

\* C23: no step changes the agent_id of an existing task.
C23_OwnerNeverChanges ==
    [][\A i \in TaskIds : tasks'[i].agent_id = tasks[i].agent_id]_vars

\* Each agent owns a task that was created, put back to pending, taken by
\* get_next_task, started by the scheduler step and ended by its routine.
C23_Witness ==
    \A a \in DOMAIN agents :
        \E i \in TaskIds :
            /\ tasks[i].agent_id = a
            /\ spawned[i] >= 1
            /\ tasks[i].status = "failed"

\* The task types the static tables list.
ListedTypes ==
    {"system_design", "business_analysis", "development", "testing",
     "infrastructure", "performance", "ui_ux", "general"}

\* C24: a task type the tables do not list is distributed like "general" (the
\* coordinator alone) with an estimate of 300 seconds; a listed type gets its
\* own candidates and estimate (development 900, testing 180, general 60).
C24_UnknownTypeFallsBack ==
    \A ty \in RequestTypes : \A p \in Priorities :
        LET db == Db(agents, tasks)
            d == distribute_task(db, now, ty, p, NoAgent)
            g == distribute_task(db, now, "general", p, NoAgent)
        IN /\ ty \notin ListedTypes =>
                /\ task_mapping(ty) = <<"team-coordinator">>
                /\ estimate_task_duration(ty) = 300
                /\ d.err = g.err
                /\ ~d.err =>
                      /\ d.db.tasks[d.task_id].agent_id = "team-coordinator"
                      /\ d.db.tasks[d.task_id].estimated_duration = 300
                      /\ d.db.agents = g.db.agents
           /\ ty = "development" => estimate_task_duration(ty) = 900
           /\ ty = "testing" =>
                /\ estimate_task_duration(ty) = 180
                /\ ~d.err => d.db.tasks[d.task_id].estimated_duration = 180
           /\ ty = "general" =>
                /\ ~d.err => d.db.tasks[d.task_id].estimated_duration = 60
           /\ ~d.err =>
                \E k \in 1..Len(task_mapping(ty)) :
                    d.db.tasks[d.task_id].agent_id = task_mapping(ty)[k]

\* The coordinator holds a task with a 300-second estimate: with no explicit
\* agent, only a request of an unlisted type creates one.
C24_Witness ==
    \E i \in TaskIds :
        /\ tasks[i].agent_id = "team-coordinator"
        /\ tasks[i].estimated_duration = 300

\* C25: every task's progress lies in 0..100 and every completed task has
\* progress 100, whoever completed it and with or without a progress value.
C25_CompletedHasFullProgress ==
    \A i \in TaskIds :
        /\ tasks[i].progress \in 0..100
        /\ tasks[i].status = "completed" => tasks[i].progress = 100

\* C26: an update of a task that is working and stays working leaves its
\* started_at and its assigned_at as they were.
C26_StartedAtWrittenOnce ==
    [][\A i \in TaskIds :
          tasks[i].status = "working" /\ tasks'[i].status = "working" =>
              /\ tasks'[i].started_at = tasks[i].started_at
              /\ tasks'[i].assigned_at = tasks[i].assigned_at]_vars

\* C27: a task that get_next_task has marked assigned and whose start then
\* failed (the only task of the store, assigned, with the agent's active_tasks
\* written by get_next_task) does not stay assigned for ever: a later round
\* starts it (or an endpoint caller rewrites its status first).
C27_FailedStartIsRetried ==
    [](/\ Len(tasks) = 1
       /\ StatusOf(1) = "assigned"
       /\ agents["qa-quality"].active_tasks = 1
       => <>(StatusOf(1) # "assigned"))

\* C28: the record get_next_task returns carries the fields of the stored row
\* unchanged, with only status set to assigned; its estimated_duration is the
\* value given at creation.
C28_ReturnsStoredFields ==
    \A a \in DOMAIN agents : \A pick \in PickSet(a) :
        LET got == get_next_task(Db(agents, tasks), now, a, pick)
            id == got.ret.id[2]
        IN got.ret.id[1] = "int" =>
              /\ got.ret = [AgentTaskOfRow(SelectedRow(id, tasks[id]))
                                EXCEPT !.status = <<"text", "assigned">>]
              /\ got.ret.estimated_duration = IntCell(tasks[id].estimated_duration)

TasksIn(a, status) ==
    {i \in TaskIds : tasks[i].agent_id = a /\ tasks[i].status = status}

RECURSIVE SumDuration(_)
SumDuration(S) ==
    IF S = {} THEN 0
    ELSE LET i == CHOOSE x \in S : TRUE
         IN tasks[i].actual_duration + SumDuration(S \ {i})

\* C29: each agent's completed_tasks and failed_tasks equal the numbers of its
\* completed and failed tasks, and its total_task_time equals the sum of
\* actual_duration over them.
C29_CountersMatchTasks ==
    \A a \in DOMAIN agents :
        /\ agents[a].completed_tasks = Cardinality(TasksIn(a, "completed"))
        /\ agents[a].failed_tasks = Cardinality(TasksIn(a, "failed"))
        /\ agents[a].total_task_time
              = SumDuration(TasksIn(a, "completed") \cup TasksIn(a, "failed"))

\* C30: every task row is owned by an agent of the store, also after a
\* distribute_task with an explicit assigned_to that is not in the roster.
C30_OwnerExists ==
    /\ \A i \in TaskIds : tasks[i].agent_id \in DOMAIN agents
    /\ \A p \in Priorities :
          LET d == distribute_task(Db(agents, tasks), now, "testing", p, "no-such-agent")
          IN \A i \in 1..Len(d.db.tasks) :
                d.db.tasks[i].agent_id \in DOMAIN d.db.agents
====
